---- MODULE Spec2Model ----
(***************************************************************************)
(* Model of app/asr_models/faster_whisper_xxl_engine.py: the adapter that  *)
(* runs the Faster-Whisper-XXL executable as a subprocess.                 *)
(*                                                                         *)
(* Python values are encoded as follows.  A str is a TLA+ string where it  *)
(* is only compared or copied (request fields, command arguments), and a   *)
(* sequence where the code looks inside it: captured stderr and file data  *)
(* are sequences of byte values, decoded text is a sequence of code        *)
(* points, and the stdout of the detection run is a sequence of text       *)
(* pieces (Atoms) on which `in`, split, strip and float work.              *)
(***************************************************************************)
EXTENDS Integers, Sequences, FiniteSets, TLC

VARIABLES
    pc,                  \* position of the (single) caller thread
    last_activity_time,  \* self.last_activity_time
    monitors,            \* idle-monitor threads started so far
    started,             \* idle-monitor threads started by the current load_model call
    pathExists,          \* what os.path.exists / the launch sees during the current call
    existingDirs,        \* temporary directories that exist on disk
    tmp,                 \* temp_output_dir of the current transcribe call
    dirFiles,            \* the files in temp_output_dir
    req,                 \* arguments (and CONFIG values read) of the current call
    cmd,                 \* the argument list handed to subprocess.run
    runs,                \* subprocess.run calls made by the current call
    scanned,             \* os.listdir(temp_output_dir) was evaluated
    proc,                \* what the subprocess did: exit status, stdout, stderr
    output_files,        \* the names the scan of temp_output_dir kept
    readWhileDir,        \* the output file was read while the directory existed
    printed,             \* what the current call printed
    outcome              \* what the current call returns or raises

vars == <<pc, last_activity_time, monitors, started, pathExists, existingDirs, tmp,
          dirFiles, req, cmd, runs, scanned, proc, output_files, readWhileDir, printed,
          outcome>>

-----------------------------------------------------------------------------
(* Bounds *)

MaxStdout == 5     \* pieces of text on the detection run's stdout
MaxStderr == 2     \* bytes of captured stderr
MaxFiles  == 2     \* files the executable leaves in the output directory
MaxClock  == 1     \* readings of time.time()
MaxLoads  == 1     \* successful load_model calls

BoundedSeq(S, n) == UNION {[1..k -> S] : k \in 0..n}

-----------------------------------------------------------------------------
(* Python values *)

NoneVal  == "<None>"
TrueVal  == "<True>"
FalseVal == "<False>"

\* `if v:` for None, bool and str
Truthy(v) == v \notin {NoneVal, FalseVal, ""}

\* f"{v}" for None and str
Str(v) == IF v = NoneVal THEN "None" ELSE v

InList(v, s) == \E i \in 1..Len(s) : s[i] = v

NoMsg == [src |-> "", text |-> <<>>, rc |-> 0]

NoOutcome == [kind |-> "none", exc |-> "", msg |-> NoMsg,
              content |-> <<>>, lang |-> <<>>, conf |-> 0]

Returned(content, lang, conf) ==
    [kind |-> "returned", exc |-> "", msg |-> NoMsg,
     content |-> content, lang |-> lang, conf |-> conf]

Raised(exc, msg) ==
    [kind |-> "raised", exc |-> exc, msg |-> msg,
     content |-> <<>>, lang |-> <<>>, conf |-> 0]

-----------------------------------------------------------------------------
(* bytes.decode() and text-mode reading *)

\* bytes.decode(): strict UTF-8.  Covers one- and two-byte sequences, which
\* is all that the byte values used below can form; every other byte is
\* rejected, as CPython rejects 0x80-0xC1 and 0xF5-0xFF.
RECURSIVE Utf8Decode(_)
Utf8Decode(bs) ==
    IF bs = <<>> THEN [ok |-> TRUE, val |-> <<>>]
    ELSE LET b == Head(bs) IN
         IF b < 128
         THEN LET r == Utf8Decode(Tail(bs))
              IN  [ok |-> r.ok, val |-> IF r.ok THEN <<b>> \o r.val ELSE <<>>]
         ELSE IF b >= 194 /\ b <= 223 /\ Len(bs) >= 2 /\ bs[2] >= 128 /\ bs[2] <= 191
         THEN LET r == Utf8Decode(Tail(Tail(bs)))
              IN  [ok |-> r.ok,
                   val |-> IF r.ok THEN <<(b - 192) * 64 + (bs[2] - 128)>> \o r.val
                                   ELSE <<>>]
         ELSE [ok |-> FALSE, val |-> <<>>]

\* open(path, "r"): universal newlines, "\r\n" and "\r" are read as "\n"
RECURSIVE TranslateNewlines(_)
TranslateNewlines(cs) ==
    IF cs = <<>> THEN <<>>
    ELSE IF Head(cs) = 13
         THEN IF Len(cs) >= 2 /\ cs[2] = 10
              THEN <<10>> \o TranslateNewlines(Tail(Tail(cs)))
              ELSE <<10>> \o TranslateNewlines(Tail(cs))
         ELSE <<Head(cs)>> \o TranslateNewlines(Tail(cs))

\* v.decode() on a captured stream: bytes decode, str has no such method
PyDecode(v) ==
    IF v.type = "bytes"
    THEN LET r == Utf8Decode(v.val)
         IN  [ok |-> r.ok, exc |-> IF r.ok THEN "" ELSE "UnicodeDecodeError", val |-> r.val]
    ELSE [ok |-> FALSE, exc |-> "AttributeError", val |-> <<>>]

\* subprocess.run(capture_output=True[, text=True]): text=True hands out str
Captured(text, raw) ==
    IF text THEN [type |-> "str", val |-> Utf8Decode(raw).val]
            ELSE [type |-> "bytes", val |-> raw]

\* f"{e.stderr.decode() if e.stderr else str(e)}" of a CalledProcessError
ErrorDetail(stderr, rc) ==
    IF stderr.val # <<>>
    THEN LET d == PyDecode(stderr)
         IN  [ok |-> d.ok, exc |-> d.exc,
              msg |-> [src |-> "stderr", text |-> d.val, rc |-> 0]]
    ELSE [ok |-> TRUE, exc |-> "",
          msg |-> [src |-> "CalledProcessError", text |-> <<>>, rc |-> rc]]

ExceptClauseAny(o, stderr, rc) ==
    IF o.kind = "raised"
    THEN LET d == ErrorDetail(stderr, rc)
         IN  IF d.ok THEN Raised("RuntimeError", d.msg) ELSE Raised(d.exc, NoMsg)
    ELSE o

\* except subprocess.CalledProcessError as e: raise RuntimeError(...); what
\* the try block returned, or raised as another exception, passes through
ExceptClause(o, stderr, rc) ==
    IF o.kind = "raised" /\ o.exc = "CalledProcessError"
    THEN LET d == ErrorDetail(stderr, rc)
         IN  IF d.ok THEN Raised("RuntimeError", d.msg) ELSE Raised(d.exc, NoMsg)
    ELSE o

-----------------------------------------------------------------------------
(* transcribe: the command line *)

ExePath   == "/app/faster-whisper-xxl"     \* CONFIG.FASTER_WHISPER_XXL_PATH
AudioPath == "/tmp/audio.wav"              \* audio_file
TmpNames  == {"/tmp/tmpa", "/tmp/tmpb"}    \* names tempfile can hand out

\* the list literal of the `-f` line
Formats == <<"srt", "vtt", "txt", "json", "tsv">>

ResolveFmtRaw(output) == Str(output)

\* output if output in [...] else "txt"
ResolveFmt(output) == IF InList(output, Formats) THEN output ELSE "txt"

BuildCmdNotNone(r, dir) ==
    LET Opt(v, args) == IF v \notin {NoneVal, FalseVal} THEN args ELSE <<>>
    IN  <<r.exe, r.audio_file>>
        \o Opt(r.task, <<"--task", r.task>>)
        \o Opt(r.language, <<"-l", r.language>>)
        \o Opt(r.initial_prompt, <<"--initial_prompt", r.initial_prompt>>)
        \o Opt(r.vad_filter, <<"--vad_filter", "True">>)
        \o Opt(r.word_timestamps, <<"--word_timestamps", "True">>)
        \o (IF r.standard THEN <<"--standard">> ELSE <<>>)
        \o <<"--max_gap", ToString(r.max_gap), "-f", ResolveFmt(r.output), "-o", dir>>

\* cmd = [...]; cmd.extend(...) ...; each step in the order of the code
BuildCmd(r, dir) ==
    LET c0 == <<r.exe, r.audio_file>>
        c1 == IF Truthy(r.task) THEN c0 \o <<"--task", r.task>> ELSE c0
        c2 == IF Truthy(r.language) THEN c1 \o <<"-l", r.language>> ELSE c1
        c3 == IF Truthy(r.initial_prompt)
              THEN c2 \o <<"--initial_prompt", r.initial_prompt>> ELSE c2
        c4 == IF Truthy(r.vad_filter) THEN c3 \o <<"--vad_filter", "True">> ELSE c3
        c5 == IF Truthy(r.word_timestamps)
              THEN c4 \o <<"--word_timestamps", "True">> ELSE c4
        c6 == IF r.standard THEN Append(c5, "--standard") ELSE c5
        c7 == c6 \o <<"--max_gap", ToString(r.max_gap)>>
        c8 == c7 \o <<"-f", ResolveFmt(r.output)>>
    IN  c8 \o <<"-o", dir>>

\* the requests a caller can make, with the CONFIG values the call reads
Requests ==
    [exe : {ExePath}, audio_file : {AudioPath},
     task : {NoneVal, "", "translate"},
     language : {NoneVal, "en"},
     initial_prompt : {NoneVal, "hello"},
     vad_filter : {NoneVal, FalseVal, TrueVal},
     word_timestamps : {FalseVal, TrueVal},
     output : {NoneVal, "", "txt", "vtt", "srt", "tsv", "json", "pdf"},
     standard : BOOLEAN,
     max_gap : {3, 10}]

\* the arguments that are still read once the subprocess has been started
LiveReq(output) ==
    [exe |-> ExePath, audio_file |-> AudioPath, task |-> NoneVal, language |-> NoneVal,
     initial_prompt |-> NoneVal, vad_filter |-> NoneVal, word_timestamps |-> NoneVal,
     output |-> output, standard |-> FALSE, max_gap |-> 0]

NoReq == LiveReq(NoneVal)

NoProc == [rc |-> 0, stderr |-> [type |-> "bytes", val |-> <<>>], stdout |-> <<>>]

-----------------------------------------------------------------------------
(* transcribe: the output directory *)

\* A file name is the sequence of its dot-separated parts: <<"audio", "srt">>
\* is audio.srt, <<"txt">> is a file called txt, <<"audio", "">> is "audio.".

\* name.endswith("." + ext), for an ext without a dot
EndsWithExt(name, ext) == Len(name) >= 2 /\ name[Len(name)] = ext

\* [f for f in os.listdir(temp_output_dir) if f.endswith(f".{output}")]
OutputFiles(files, output) == {f \in files : EndsWithExt(f.name, Str(output))}

\* with open(path, "r", encoding="utf-8") as f: f.read()
ReadText(data) ==
    LET d == Utf8Decode(data)
    IN  [ok |-> d.ok, val |-> TranslateNewlines(d.val)]

\* file contents: "hi", "h\r\n", and a byte that is not UTF-8
FileData == {<<104, 105>>, <<104, 13, 10>>, <<255>>}

\* names the executable may leave behind for a request
FileNames(output) ==
    {<<"audio", ResolveFmt(output)>>, <<"audio", Str(output)>>,
     <<"audio", "log">>, <<ResolveFmt(output)>>}

Dirs(output) ==
    LET names == FileNames(output)
    IN  UNION {[ns -> FileData] : ns \in {n \in SUBSET names : Cardinality(n) <= MaxFiles}}

FilesOf(d) == {[name |-> n, data |-> d[n]] : n \in DOMAIN d}

\* stderr bytes: "b", the two bytes of U+00E9, and a byte that is not UTF-8
StderrBytes == {98, 195, 169, 255}

NonZero == {1, 2}

\* with tempfile.TemporaryDirectory(): __exit__ removes the directory
NoCleanup(dirs, d) == dirs

Cleanup(dirs, d) == dirs \ {d}

-----------------------------------------------------------------------------
(* language_detection: str operations on the captured stdout *)

\* The stdout text is a sequence of pieces; each piece is a literal the code
\* searches for, a white-space character, or a word.  Adjacent pieces are
\* adjacent text: <<"fr", PR>> is the text "frprobability:".
DL == "Detected language:"
PR == "probability:"
SP == " "
NL == "\n"
Atoms == {DL, PR, SP, NL, "fr", "0.87"}

\* float() of a single word
IsNumber(w) == w \in {"0.87", "1.0"}
NumberValue(w) == IF w = "0.87" THEN 87 ELSE 100        \* in hundredths

\* sep in s
Contains(s, sep) == \E i \in 1..Len(s) : s[i] = sep

IndexOf(s, sep) == CHOOSE i \in 1..Len(s) : s[i] = sep /\ \A j \in 1..(i - 1) : s[j] # sep

\* s.split(sep)
RECURSIVE Split(_, _)
Split(s, sep) ==
    IF ~Contains(s, sep) THEN <<s>>
    ELSE LET i == IndexOf(s, sep)
         IN  <<SubSeq(s, 1, i - 1)>> \o Split(SubSeq(s, i + 1, Len(s)), sep)

\* s.splitlines(): no empty last line after a final line break
RECURSIVE SplitLines(_)
SplitLines(s) ==
    IF s = <<>> THEN <<>>
    ELSE IF ~Contains(s, NL) THEN <<s>>
    ELSE LET i == IndexOf(s, NL)
         IN  <<SubSeq(s, 1, i - 1)>> \o SplitLines(SubSeq(s, i + 1, Len(s)))

IsSpace(a) == a \in {SP, NL}

RECURSIVE LStrip(_)
LStrip(s) == IF s # <<>> /\ IsSpace(Head(s)) THEN LStrip(Tail(s)) ELSE s

RECURSIVE RStrip(_)
RStrip(s) ==
    IF s # <<>> /\ IsSpace(s[Len(s)]) THEN RStrip(SubSeq(s, 1, Len(s) - 1)) ELSE s

\* s.strip()
Strip(s) == LStrip(RStrip(s))

\* s.split(): the maximal runs of non-space text
RECURSIVE SplitWs(_)
SplitWs(s) ==
    LET t == LStrip(s)
    IN  IF t = <<>> THEN <<>>
        ELSE IF \A i \in 1..Len(t) : ~IsSpace(t[i]) THEN <<t>>
        ELSE LET i == CHOOSE k \in 1..Len(t) :
                          IsSpace(t[k]) /\ \A j \in 1..(k - 1) : ~IsSpace(t[j])
             IN  <<SubSeq(t, 1, i - 1)>> \o SplitWs(SubSeq(t, i + 1, Len(t)))

\* float(s): white space around the number is ignored, anything else raises
ParseFloat(s) ==
    LET t == Strip(s)
    IN  IF Len(t) = 1 /\ IsNumber(t[1])
        THEN [ok |-> TRUE, val |-> NumberValue(t[1])]
        ELSE [ok |-> FALSE, val |-> 0]

DefaultLang == <<"en">>

\* the body of `if "Detected language:" in line:`
ParseLine(line) ==
    LET language_info == Strip(Split(line, DL)[2])
        words == SplitWs(language_info)
        confidence_str == IF Contains(line, PR) THEN Strip(Split(line, PR)[2])
                          ELSE <<"1.0">>
        confidence == ParseFloat(confidence_str)
    IN  IF words = <<>> THEN Raised("IndexError", NoMsg)
        ELSE IF ~confidence.ok THEN Raised("ValueError", NoMsg)
        ELSE Returned(<<>>, Strip(words[1]), confidence.val)

ScanLinesLast(lines) ==
    IF \E i \in 1..Len(lines) : Contains(lines[i], DL)
    THEN ParseLine(lines[CHOOSE i \in 1..Len(lines) :
                         Contains(lines[i], DL)
                         /\ \A j \in (i + 1)..Len(lines) : ~Contains(lines[j], DL)])
    ELSE Returned(<<>>, DefaultLang, 0)

\* for line in output_lines: ... return on the first match; else ("en", 0.0)
RECURSIVE ScanLines(_)
ScanLines(lines) ==
    IF lines = <<>> THEN Returned(<<>>, DefaultLang, 0)
    ELSE IF Contains(Head(lines), DL) THEN ParseLine(Head(lines))
    ELSE ScanLines(Tail(lines))

-----------------------------------------------------------------------------
(* The adapter *)

Init ==
    /\ pc = "idle"
    /\ last_activity_time = 0
    /\ monitors = 0
    /\ started = 0
    /\ pathExists = TRUE
    /\ existingDirs = {}
    /\ tmp = ""
    /\ dirFiles = {}
    /\ req = NoReq
    /\ cmd = <<>>
    /\ runs = 0
    /\ scanned = FALSE
    /\ proc = NoProc
    /\ output_files = {}
    /\ readWhileDir = FALSE
    /\ printed = <<>>
    /\ outcome = NoOutcome

\* self.last_activity_time = time.time()
Touch == \E t \in 0..MaxClock : t >= last_activity_time /\ last_activity_time' = t

ExecutableMissingNever(exists) == FALSE

\* not os.path.exists(CONFIG.FASTER_WHISPER_XXL_PATH)
ExecutableMissing(exists) == ~exists

\* load_model: the existence check
LoadCheck ==
    /\ pc = "idle"
    /\ monitors < MaxLoads
    /\ \E e \in BOOLEAN :
          /\ pathExists' = e
          /\ IF ExecutableMissing(e)
             THEN /\ outcome' = Raised("FileNotFoundError", [NoMsg EXCEPT !.src = "load_model"])
                  /\ pc' = "l_done"
             ELSE /\ outcome' = outcome
                  /\ pc' = "l_start"
    /\ UNCHANGED <<last_activity_time, monitors, started, existingDirs, tmp, dirFiles,
                   req, cmd, runs, scanned, proc, output_files, readWhileDir, printed>>

\* load_model: Thread(target=self.monitor_idleness, daemon=True).start()
LoadStart ==
    /\ pc = "l_start"
    /\ monitors' = monitors + 1
    /\ started' = started + 1
    /\ outcome' = Returned(<<>>, <<>>, 0)
    /\ pc' = "l_done"
    /\ UNCHANGED <<last_activity_time, pathExists, existingDirs, tmp, dirFiles,
                   req, cmd, runs, scanned, proc, output_files, readWhileDir, printed>>

\* transcribe up to the try: timestamp, temporary directory, command
TranscribeCall ==
    /\ pc = "idle"
    /\ Touch
    /\ \E r \in Requests, d \in TmpNames \ existingDirs :
          /\ existingDirs' = existingDirs \cup {d}
          /\ tmp' = d
          /\ req' = r
          /\ cmd' = BuildCmd(r, d)
    /\ dirFiles' = {}
    /\ pc' = "t_run"
    /\ UNCHANGED <<monitors, started, pathExists, runs, scanned, proc, output_files,
                   readWhileDir, printed, outcome>>

\* subprocess.run(cmd, ...): starting the executable; a missing executable
\* raises FileNotFoundError, which the except clause does not catch
TranscribeLaunch ==
    /\ pc = "t_run"
    /\ runs' = runs + 1
    /\ req' = LiveReq(req.output)
    /\ cmd' = <<>>
    /\ \E e \in BOOLEAN :
          /\ pathExists' = e
          /\ IF e
             THEN /\ outcome' = outcome
                  /\ pc' = "t_wait"
             ELSE /\ outcome' = Raised("FileNotFoundError", [NoMsg EXCEPT !.src = "launch"])
                  /\ pc' = "t_exit"
    /\ UNCHANGED <<last_activity_time, monitors, started, existingDirs, tmp, dirFiles,
                   scanned, proc, output_files, readWhileDir, printed>>

\* the executable exits 0: the rest of the try block
TranscribeExitZero ==
    /\ pc = "t_wait"
    /\ \E d \in Dirs(req.output) :
          LET files == FilesOf(d)
          IN   /\ dirFiles' = files
              /\ output_files' = {f.name : f \in OutputFiles(files, req.output)}
              /\ IF OutputFiles(files, req.output) = {}
                 THEN /\ outcome' = ExceptClause(
                             Raised("FileNotFoundError", [NoMsg EXCEPT !.src = "output"]),
                             NoProc.stderr, 0)
                      /\ readWhileDir' = FALSE
                 ELSE \E f \in OutputFiles(files, req.output) :   \* output_files[0]
                         LET r == ReadText(f.data)
                         IN  IF r.ok
                             THEN /\ outcome' = ExceptClause(Returned(r.val, <<>>, 0),
                                                             NoProc.stderr, 0)
                                  /\ readWhileDir' = (tmp \in existingDirs)
                             ELSE /\ outcome' = ExceptClause(
                                         Raised("UnicodeDecodeError", NoMsg),
                                         NoProc.stderr, 0)
                                  /\ readWhileDir' = FALSE
    /\ proc' = NoProc
    /\ scanned' = TRUE
    /\ pc' = "t_exit"
    /\ UNCHANGED <<last_activity_time, monitors, started, pathExists, existingDirs, tmp,
                   req, cmd, runs, printed>>

\* the executable exits non-zero: check=True raises CalledProcessError,
\* the except clause builds the RuntimeError
TranscribeExitNonZero ==
    /\ pc = "t_wait"
    /\ \E rc \in NonZero, raw \in BoundedSeq(StderrBytes, MaxStderr) :
          LET stderr == Captured(FALSE, raw)
          IN  /\ proc' = [rc |-> rc, stderr |-> stderr, stdout |-> <<>>]
              /\ outcome' = ExceptClause(Raised("CalledProcessError", NoMsg), stderr, rc)
    /\ pc' = "t_exit"
    /\ UNCHANGED <<last_activity_time, monitors, started, pathExists, existingDirs, tmp,
                   dirFiles, req, cmd, runs, scanned, output_files, readWhileDir, printed>>

\* leaving the with block
TranscribeExit ==
    /\ pc = "t_exit"
    /\ existingDirs' = Cleanup(existingDirs, tmp)
    /\ dirFiles' = IF tmp \in existingDirs' THEN dirFiles ELSE {}
    /\ pc' = "t_done"
    /\ UNCHANGED <<last_activity_time, monitors, started, pathExists, tmp, req, cmd,
                   runs, scanned, proc, output_files, readWhileDir, printed, outcome>>

DetectCmd == <<ExePath, AudioPath, "--language_detection_segments", "1">>

\* language_detection up to the try
DetectCall ==
    /\ pc = "idle"
    /\ Touch
    /\ cmd' = DetectCmd
    /\ pc' = "d_run"
    /\ UNCHANGED <<monitors, started, pathExists, existingDirs, tmp, dirFiles, req,
                   runs, scanned, proc, output_files, readWhileDir, printed, outcome>>

\* subprocess.run(cmd, ..., text=True): starting the executable
DetectLaunch ==
    /\ pc = "d_run"
    /\ runs' = runs + 1
    /\ \E e \in BOOLEAN :
          /\ pathExists' = e
          /\ IF e
             THEN /\ outcome' = outcome
                  /\ pc' = "d_wait"
             ELSE /\ outcome' = Raised("FileNotFoundError", [NoMsg EXCEPT !.src = "launch"])
                  /\ pc' = "d_done"
    /\ UNCHANGED <<last_activity_time, monitors, started, existingDirs, tmp, dirFiles,
                   req, cmd, scanned, proc, output_files, readWhileDir, printed>>

\* the executable exits 0: stdout is parsed
DetectExitZero ==
    /\ pc = "d_wait"
    /\ \E out \in BoundedSeq(Atoms, MaxStdout) :
          /\ proc' = [NoProc EXCEPT !.stdout = out]
          /\ outcome' = ScanLines(SplitLines(out))
    /\ pc' = "d_done"
    /\ UNCHANGED <<last_activity_time, monitors, started, pathExists, existingDirs, tmp,
                   dirFiles, req, cmd, runs, scanned, output_files, readWhileDir, printed>>

\* the executable exits non-zero: the except clause.  text=True has already
\* decoded stderr (a stream that cannot be decoded makes subprocess.run
\* itself raise UnicodeDecodeError).
DetectExitNonZero ==
    /\ pc = "d_wait"
    /\ \E rc \in NonZero, raw \in BoundedSeq(StderrBytes, MaxStderr) :
          LET stderr == Captured(TRUE, raw)
              d == ErrorDetail(stderr, rc)
          IN  IF ~Utf8Decode(raw).ok
              THEN /\ proc' = [rc |-> rc, stderr |-> Captured(FALSE, raw), stdout |-> <<>>]
                   /\ outcome' = Raised("UnicodeDecodeError", NoMsg)
                   /\ printed' = printed
              ELSE /\ proc' = [rc |-> rc, stderr |-> stderr, stdout |-> <<>>]
                   /\ IF d.ok
                      THEN /\ printed' = Append(printed, d.msg)
                           /\ outcome' = Returned(<<>>, DefaultLang, 0)
                      ELSE /\ outcome' = Raised(d.exc, NoMsg)
                           /\ printed' = printed
    /\ pc' = "d_done"
    /\ UNCHANGED <<last_activity_time, monitors, started, pathExists, existingDirs, tmp,
                   dirFiles, req, cmd, runs, scanned, output_files, readWhileDir>>

\* the call has returned or raised; the caller goes on
Return ==
    /\ pc \in {"l_done", "t_done", "d_done"}
    /\ pc' = "idle"
    /\ started' = 0
    /\ pathExists' = TRUE
    /\ tmp' = ""
    /\ dirFiles' = {}
    /\ req' = NoReq
    /\ cmd' = <<>>
    /\ runs' = 0
    /\ scanned' = FALSE
    /\ proc' = NoProc
    /\ output_files' = {}
    /\ readWhileDir' = FALSE
    /\ printed' = <<>>
    /\ outcome' = NoOutcome
    /\ UNCHANGED <<last_activity_time, monitors, existingDirs>>

Next ==
    \/ LoadCheck
    \/ LoadStart
    \/ TranscribeCall
    \/ TranscribeLaunch
    \/ TranscribeExitZero
    \/ TranscribeExitNonZero
    \/ TranscribeExit
    \/ DetectCall
    \/ DetectLaunch
    \/ DetectExitZero
    \/ DetectExitNonZero
    \/ Return

Spec == Init /\ [][Next]_vars

-----------------------------------------------------------------------------
(* Properties *)

\* the command of a transcribe call is complete and not yet consumed
CmdBuilt == pc = "t_run"

\* a transcribe or detection subprocess ran to its exit
TranscribeRan == pc \in {"t_exit", "t_done"} /\ pathExists
DetectRan     == pc = "d_done" /\ pathExists

RecognizedFormats == {"txt", "vtt", "srt", "tsv", "json"}

\* C1: in every constructed transcribe command the argument after the -f
\* flag (third from the end, before -o <dir>) is the requested format when
\* that is one of txt, vtt, srt, tsv, json, and txt for any other value,
\* None included.
C1_FormatArgument ==
    CmdBuilt =>
        LET n == Len(cmd)
        IN  /\ n >= 4
            /\ cmd[n - 3] = "-f"
            /\ cmd[n - 2] = (IF req.output \in RecognizedFormats THEN req.output ELSE "txt")

C1_Witness ==
    /\ CmdBuilt
    /\ req.output = "pdf"
    /\ cmd[Len(cmd) - 3] = "-f"
    /\ cmd[Len(cmd) - 2] = "txt"

\* the flags of section 4.1 step 3 in their fixed order, with what makes each
\* present; a field is set when it is a non-empty string or True
C2_Table(r, dir) ==
    << [on |-> TRUE,                      args |-> <<ExePath, AudioPath>>],
       [on |-> Truthy(r.task),            args |-> <<"--task", r.task>>],
       [on |-> Truthy(r.language),        args |-> <<"-l", r.language>>],
       [on |-> Truthy(r.initial_prompt),  args |-> <<"--initial_prompt", r.initial_prompt>>],
       [on |-> r.vad_filter = TrueVal,    args |-> <<"--vad_filter", "True">>],
       [on |-> r.word_timestamps = TrueVal, args |-> <<"--word_timestamps", "True">>],
       [on |-> r.standard,                args |-> <<"--standard">>],
       [on |-> TRUE,                      args |-> <<"--max_gap", ToString(r.max_gap)>>],
       [on |-> TRUE,                      args |-> <<"-f", IF r.output \in RecognizedFormats
                                                                THEN r.output ELSE "txt">>],
       [on |-> TRUE,                      args |-> <<"-o", dir>>] >>

RECURSIVE C2_Flatten(_)
C2_Flatten(rows) ==
    IF rows = <<>> THEN <<>>
    ELSE (IF Head(rows).on THEN Head(rows).args ELSE <<>>) \o C2_Flatten(Tail(rows))

C2_Has(flag) == \E i \in 1..Len(cmd) : cmd[i] = flag

\* C2: the command built by transcribe is exactly the rows of the table whose
\* field is set, in the table's order, each flag followed by its value; the
\* flag of an unset field does not occur, and --max_gap, -f and -o always do.
C2_CommandShape ==
    CmdBuilt =>
        /\ cmd = C2_Flatten(C2_Table(req, tmp))
        /\ C2_Has("--task") <=> Truthy(req.task)
        /\ C2_Has("-l") <=> Truthy(req.language)
        /\ C2_Has("--initial_prompt") <=> Truthy(req.initial_prompt)
        /\ C2_Has("--vad_filter") <=> req.vad_filter = TrueVal
        /\ C2_Has("--word_timestamps") <=> req.word_timestamps = TrueVal
        /\ C2_Has("--standard") <=> req.standard
        /\ C2_Has("--max_gap") /\ C2_Has("-f") /\ C2_Has("-o")

C2_Witness ==
    /\ CmdBuilt
    /\ req.task = "" /\ req.language = "en" /\ req.initial_prompt = NoneVal
    /\ req.vad_filter = TrueVal /\ req.word_timestamps = FalseVal
    /\ req.standard /\ req.max_gap = 10 /\ req.output = NoneVal
    /\ cmd = <<ExePath, AudioPath, "-l", "en", "--vad_filter", "True", "--standard",
               "--max_gap", "10", "-f", "txt", "-o", tmp>>

C3_ResolvedFiles ==
    {f \in dirFiles : EndsWithExt(f.name, IF req.output \in RecognizedFormats
                                          THEN req.output ELSE "txt")}

\* C3: after a zero exit, when the directory holds a file named *.<resolved
\* format> (and every file in it is readable text), transcribe returns the
\* content of such a file and does not fail with a not-found error.
C3_SelectsByResolvedFormat ==
    (/\ pc = "t_exit" /\ scanned
     /\ C3_ResolvedFiles # {}
     /\ \A f \in dirFiles : ReadText(f.data).ok)
    => /\ outcome.kind = "returned"
       /\ \E f \in C3_ResolvedFiles : outcome.content = ReadText(f.data).val

\* C4: after a non-zero exit transcribe raises RuntimeError carrying the
\* captured stderr text, or the text of the CalledProcessError when stderr is
\* empty; it returns nothing, never lists the directory and has run the
\* subprocess once.
C4_NonZeroExitIsRuntimeError ==
    (TranscribeRan /\ proc.rc # 0)
    => /\ outcome.kind = "raised"
       /\ outcome.exc = "RuntimeError"
       /\ IF proc.stderr.val # <<>>
          THEN outcome.msg.src = "stderr"
          ELSE outcome.msg.src = "CalledProcessError" /\ outcome.msg.rc = proc.rc
       /\ ~scanned
       /\ runs = 1

\* C5: after a zero exit with no file named *.<output> in the directory,
\* transcribe raises the FileNotFoundError of the scan and the caller receives
\* exactly that: no RuntimeError, no other outcome, no content.
C5_OutputNotFoundPropagates ==
    /\ (pc = "t_exit" /\ scanned)
       => output_files = {f.name : f \in {g \in dirFiles :
                                            EndsWithExt(g.name, Str(req.output))}}
    /\ (TranscribeRan /\ scanned /\ output_files = {})
       => /\ outcome = Raised("FileNotFoundError", [NoMsg EXCEPT !.src = "output"])
          /\ outcome.content = <<>>

C5_Witness ==
    /\ pc = "t_done" /\ scanned /\ output_files = {}
    /\ req.output = "srt"
    /\ outcome.exc = "FileNotFoundError"

\* C6: once a transcribe call has returned or raised, whatever the exit path,
\* its temporary directory no longer exists and none is left behind; content
\* that is returned was read while the directory still existed.
C6_TempDirRemoved ==
    /\ pc = "t_done" => tmp \notin existingDirs
    /\ pc \in {"idle", "t_done"} => existingDirs = {}
    /\ pc \in {"t_run", "t_wait", "t_exit"} => existingDirs = {tmp}
    /\ (pc \in {"t_exit", "t_done"} /\ outcome.kind = "returned") => readWhileDir

C6_Witness ==
    /\ pc = "t_done"
    /\ outcome.kind = "raised" /\ outcome.exc = "UnicodeDecodeError"
    /\ scanned
    /\ tmp \notin existingDirs

\* C7: after a non-zero exit of the detection run, for every captured stderr,
\* language_detection has printed the error and returns ("en", 0.0).
C7_DetectNonZeroReturnsDefault ==
    (DetectRan /\ proc.rc # 0 /\ proc.stderr.type = "str")
    => /\ outcome = Returned(<<>>, DefaultLang, 0)
       /\ Len(printed) = 1

\* the first line of the captured stdout that contains the literal, if any
C8_Lines == SplitLines(proc.stdout)
C8_HasMatch == \E i \in 1..Len(C8_Lines) : Contains(C8_Lines[i], DL)
C8_First ==
    C8_Lines[CHOOSE i \in 1..Len(C8_Lines) :
                 Contains(C8_Lines[i], DL) /\ \A j \in 1..(i - 1) : ~Contains(C8_Lines[j], DL)]

\* the text of s after the first occurrence of sep, to the end of the line
C8_After(s, sep) ==
    LET i == CHOOSE k \in 1..Len(s) : s[k] = sep /\ \A j \in 1..(k - 1) : s[j] # sep
    IN  SubSeq(s, i + 1, Len(s))

\* the text of s between the first occurrence of sep and the next one (or the
\* end of the line)
C8_Between(s, sep) ==
    LET rest == C8_After(s, sep)
        stop == {k \in 1..Len(rest) : rest[k] = sep}
        end  == IF stop = {} THEN Len(rest)
                ELSE (CHOOSE k \in stop : \A j \in stop : k <= j) - 1
    IN  SubSeq(rest, 1, end)

\* the literal "Detected language:" is itself two words
RECURSIVE C8_Spell(_)
C8_Spell(s) ==
    IF s = <<>> THEN <<>>
    ELSE (IF Head(s) = DL THEN <<"Detected", SP, "language:">> ELSE <<Head(s)>>)
         \o C8_Spell(Tail(s))

\* the first white-space-delimited token of s (<<>> when s has none)
C8_Token(s) ==
    LET text == {k \in 1..Len(s) : ~IsSpace(s[k])}
    IN  IF text = {} THEN <<>>
        ELSE LET a == CHOOSE k \in text : \A j \in text : k <= j
                 gaps == {k \in a..Len(s) : IsSpace(s[k])}
                 b == IF gaps = {} THEN Len(s)
                      ELSE (CHOOSE k \in gaps : \A j \in gaps : k <= j) - 1
             IN  SubSeq(s, a, b)

\* s is one number with nothing but white space around it; its value
C8_IsNumber(s) ==
    \E k \in 1..Len(s) : IsNumber(s[k]) /\ \A j \in 1..Len(s) : j # k => IsSpace(s[j])
C8_Number(s) == NumberValue(s[CHOOSE k \in 1..Len(s) : IsNumber(s[k])])

C8_Confidence(line) ==
    IF Contains(line, PR) THEN C8_Number(C8_Between(line, PR)) ELSE 100

\* C8 as stated: after a zero exit the result is that of the first line
\* containing "Detected language:", the code being the first token after that
\* substring and the confidence the value after "probability:" (1.0 without
\* it); with no such line the result is ("en", 0.0).
C8_FirstTokenAfterSubstring ==
    (DetectRan /\ proc.rc = 0)
    => IF ~C8_HasMatch THEN outcome = Returned(<<>>, DefaultLang, 0)
       ELSE outcome.kind = "returned"
            => /\ outcome.lang = C8_Token(C8_Spell(C8_After(C8_First, DL)))
               /\ outcome.conf = C8_Confidence(C8_First)

\* C8 amended: after a zero exit the outcome is that of the first line
\* containing "Detected language:" and of no later line: the code is the first
\* token of the text between that substring and its next occurrence on the
\* line (or the end of the line), the confidence is the number between
\* "probability:" and its next occurrence (or the end of the line), 1.0 when
\* the line has no "probability:"; a first matching line without such a token
\* or such a number yields no result; with no matching line the result is
\* ("en", 0.0).
C8_FirstMatchingLineDecides ==
    (DetectRan /\ proc.rc = 0)
    => IF ~C8_HasMatch THEN outcome = Returned(<<>>, DefaultLang, 0)
       ELSE LET token == C8_Token(C8_Between(C8_First, DL))
                good  == ~Contains(C8_First, PR) \/ C8_IsNumber(C8_Between(C8_First, PR))
            IN  IF token # <<>> /\ good
                THEN outcome = Returned(<<>>, token, C8_Confidence(C8_First))
                ELSE outcome.kind = "raised"

C8_Witness ==
    /\ DetectRan /\ proc.rc = 0
    /\ Len(C8_Lines) >= 2
    /\ Contains(C8_Lines[1], DL) /\ Contains(C8_Lines[2], DL)
    /\ outcome = Returned(<<>>, <<"fr">>, 100)

\* C9: after a zero exit language_detection always returns a pair, the
\* default ("en", 0.0) when the first matching line cannot be parsed; no error
\* reaches the caller.
C9_DetectNeverRaises ==
    (DetectRan /\ proc.rc = 0)
    => /\ outcome.kind = "returned"
       /\ (C8_HasMatch /\ C8_Token(C8_Between(C8_First, DL)) = <<>>)
          => outcome = Returned(<<>>, DefaultLang, 0)

\* C10: load_model checks the path first: a missing path raises
\* FileNotFoundError with no monitor thread started; an existing path starts
\* exactly one and returns; no thread is started unless the check has passed.
C10_LoadChecksThenStarts ==
    /\ pc = "l_start" => pathExists /\ started = 0
    /\ pc = "l_done" =>
          IF pathExists
          THEN outcome.kind = "returned" /\ started = 1
          ELSE /\ outcome = Raised("FileNotFoundError", [NoMsg EXCEPT !.src = "load_model"])
               /\ started = 0
    /\ started > 0 => pathExists /\ pc = "l_done"
    /\ monitors >= started

C10_Witness ==
    /\ pc = "l_done"
    /\ ~pathExists
    /\ outcome.exc = "FileNotFoundError"
    /\ started = 0 /\ monitors = 0

====
